---------------------------- MODULE Spec2Model ----------------------------
(***************************************************************************)
(* reprounzip/parameters.py: the parameter file of ReproZip's unpackers.   *)
(*                                                                         *)
(* The module models update_parameters and get_parameter statement by      *)
(* statement (one action per group of statements that touches the global   *)
(* `parameters`, the cache file or the network), the version gate built on *)
(* distutils' LooseVersion, the embedded default document                  *)
(* bundled_parameters, and the two-level pattern lookup that the unpackers *)
(* run on an image / box catalog.                                          *)
(*                                                                         *)
(* Python strings that the code inspects character by character (the       *)
(* REPROZIP_PARAMETERS value, the URL, a document's version) are sequences *)
(* of one-character strings.  Strings that are only carried around (image  *)
(* names, download URLs of the bundled document, regular-expression texts) *)
(* are TLA+ strings.                                                       *)
(***************************************************************************)
EXTENDS Integers, Sequences, FiniteSets, TLC

(***************************************************************************)
(* Bounds of the model.                                                    *)
(***************************************************************************)
\* Longest version string enumerated exhaustively over VersionAlphabet.
MaxVerLen == 3
\* Calls of update_parameters / get_parameter made during one process.
MaxCalls == 2
\* Threads of the process that may call into the module.
NThreads == 2

Threads == 1 .. NThreads

(***************************************************************************)
(* Python values.                                                          *)
(***************************************************************************)
\* Python's None, where a mapping / record is expected.
None == [kind |-> "None"]

\* An optional Python string: os.environ.get(...) and dict.get(...) results.
NoStr == [isstr |-> FALSE, s |-> <<>>]
Str(s) == [isstr |-> TRUE, s |-> s]

\* str.startswith
startswith(s, prefix) ==
  /\ Len(s) >= Len(prefix)
  /\ SubSeq(s, 1, Len(prefix)) = prefix

\* Every sequence over alphabet of length 0 .. n.
StringsUpTo(alphabet, n) == UNION {[1 .. k -> alphabet] : k \in 0 .. n}

(***************************************************************************)
(* distutils.version.LooseVersion, as used at lines 70-71.                 *)
(***************************************************************************)
Digits == {"0", "1", "2", "3", "4", "5", "6", "7", "8", "9"}
LowerLetters ==
  {"a", "b", "c", "d", "e", "f", "g", "h", "i", "j", "k", "l", "m",
   "n", "o", "p", "q", "r", "s", "t", "u", "v", "w", "x", "y", "z"}

DigitValue(c) ==
  CASE c = "0" -> 0 [] c = "1" -> 1 [] c = "2" -> 2 [] c = "3" -> 3
    [] c = "4" -> 4 [] c = "5" -> 5 [] c = "6" -> 6 [] c = "7" -> 7
    [] c = "8" -> 8 [] c = "9" -> 9

\* The alternative of component_re = (\d+ | [a-z]+ | \.) a character falls
\* under; "other" is text between two matches, which re.split hands back.
CharClass(c) ==
  IF c \in Digits THEN "digit"
  ELSE IF c \in LowerLetters THEN "alpha"
  ELSE IF c = "." THEN "dot"
  ELSE "other"

\* Length of the longest prefix of s whose characters are all of class cls.
RECURSIVE RunLength(_, _)
RunLength(s, cls) ==
  IF s = <<>> \/ CharClass(Head(s)) # cls THEN 0
  ELSE 1 + RunLength(Tail(s), cls)

\* component_re.split(vstring) without the empty pieces: the maximal runs of
\* digits, of lower-case letters and of other text, and every single dot.
RECURSIVE component_split(_)
component_split(s) ==
  IF s = <<>> THEN <<>>
  ELSE LET cls == CharClass(Head(s))
           k == IF cls = "dot" THEN 1 ELSE RunLength(s, cls)
       IN <<SubSeq(s, 1, k)>> \o component_split(SubSeq(s, k + 1, Len(s)))

\* int(obj) of a run of digits.
RECURSIVE int(_)
int(digits) ==
  IF digits = <<>> THEN 0
  ELSE 10 * int(SubSeq(digits, 1, Len(digits) - 1))
       + DigitValue(digits[Len(digits)])

\* A component of a parsed version: an int or a str.
IntComp(n) == [isint |-> TRUE, n |-> n, s |-> <<>>]
StrComp(s) == [isint |-> FALSE, n |-> 0, s |-> s]

\* LooseVersion.parse: drop the dots, turn the digit runs into ints.
RECURSIVE components(_)
components(pieces) ==
  IF pieces = <<>> THEN <<>>
  ELSE LET x == Head(pieces)
           rest == components(Tail(pieces))
       IN IF x = <<".">> THEN rest
          ELSE IF CharClass(x[1]) = "digit" THEN <<IntComp(int(x))>> \o rest
          ELSE <<StrComp(x)>> \o rest

\* LooseVersion(vstring): __init__ parses only a truthy vstring, so the
\* object built from '' has no `version` attribute.
LooseVersion(vstring) ==
  IF vstring = <<>> THEN [parsed |-> FALSE, version |-> <<>>]
  ELSE [parsed |-> TRUE, version |-> components(component_split(vstring))]

\* The characters the model compares, in code point order.
CharOrder ==
  <<" ", "-", ".", "0", "1", "2", "3", "4", "5", "6", "7", "8", "9",
    "A", "B", "C", "D", "E", "F", "G", "H", "I", "J", "K", "L", "M",
    "N", "O", "P", "Q", "R", "S", "T", "U", "V", "W", "X", "Y", "Z",
    "a", "b", "c", "d", "e", "f", "g", "h", "i", "j", "k", "l", "m",
    "n", "o", "p", "q", "r", "s", "t", "u", "v", "w", "x", "y", "z">>
CharCode(c) == CHOOSE i \in 1 .. Len(CharOrder) : CharOrder[i] = c

\* Python's str comparison: "lt", "eq" or "gt".
RECURSIVE str_cmp(_, _)
str_cmp(a, b) ==
  IF a = <<>> /\ b = <<>> THEN "eq"
  ELSE IF a = <<>> THEN "lt"
  ELSE IF b = <<>> THEN "gt"
  ELSE IF CharCode(Head(a)) < CharCode(Head(b)) THEN "lt"
  ELSE IF CharCode(Head(a)) > CharCode(Head(b)) THEN "gt"
  ELSE str_cmp(Tail(a), Tail(b))

\* Ordering of two version components that are not equal.  An int and a
\* str: Python 2 orders every number before every string, Python 3 raises
\* TypeError.
comp_cmp(a, b, py) ==
  IF a.isint /\ b.isint THEN (IF a.n < b.n THEN "lt" ELSE "gt")
  ELSE IF ~a.isint /\ ~b.isint THEN str_cmp(a.s, b.s)
  ELSE IF py = 3 THEN "TypeError"
  ELSE IF a.isint THEN "lt" ELSE "gt"

\* Python's list comparison: the first pair of unequal items decides, a
\* proper prefix is smaller.
RECURSIVE list_cmp(_, _, _)
list_cmp(a, b, py) ==
  IF a = <<>> /\ b = <<>> THEN "eq"
  ELSE IF a = <<>> THEN "lt"
  ELSE IF b = <<>> THEN "gt"
  ELSE IF Head(a) = Head(b) THEN list_cmp(Tail(a), Tail(b), py)
  ELSE comp_cmp(Head(a), Head(b), py)

\* LooseVersion._cmp / __cmp__: reads both objects' `version` attribute.
version_cmp(v, w, py) ==
  IF ~v.parsed \/ ~w.parsed THEN "AttributeError"
  ELSE list_cmp(v.version, w.version, py)

V_1_1 == <<"1", ".", "1">>
V_1_2 == <<"1", ".", "2">>

\* The chained comparison of line 71,
\*   LooseVersion('1.1') <= ver < LooseVersion('1.2'):
\* "accept", "reject", or the exception it raises.  The second comparison
\* is evaluated only when the first one is true.
version_gate(ver, py) ==
  LET lo == version_cmp(LooseVersion(V_1_1), ver, py)
      hi == version_cmp(ver, LooseVersion(V_1_2), py)
  IN IF lo \notin {"lt", "eq", "gt"} THEN lo
     ELSE IF lo = "gt" THEN "reject"
     ELSE IF hi \notin {"lt", "eq", "gt"} THEN hi
     ELSE IF hi = "lt" THEN "accept"
     ELSE "reject"

(***************************************************************************)
(* JSON documents.  json.load gives None, a dict, or a value of another    *)
(* type (list, number, string, bool), which has no .get method.  A dict is *)
(* its "version" entry and its sections.                                   *)
(***************************************************************************)
\* The "version" entry of a dict: missing, a string, or a non-string value.
NoVersion == [tag |-> "absent", s |-> <<>>]
StrVersion(s) == [tag |-> "str", s |-> s]
NonStrVersion == [tag |-> "number", s |-> <<>>]

JsonNull == None
JsonArray == [kind |-> "array"]
JsonObject(v, secs) == [kind |-> "object", version |-> v, sections |-> secs]

\* hasattr(value, 'get'): only a dict has the method.
is_dict(value) == value.kind = "object"

\* parameters.get('version', '1.0')
V_1_0 == <<"1", ".", "0">>
get_version(doc) ==
  IF doc.version.tag = "absent" THEN StrVersion(V_1_0) ELSE doc.version

\* parameters.get(section, None)
dict_get(doc, sec) ==
  IF sec \in DOMAIN doc.sections THEN doc.sections[sec] ELSE None

(***************************************************************************)
(* bundled_parameters (lines 89-463), as json.loads reads it.              *)
(***************************************************************************)
bundled_busybox_url ==
  [x86_64 |-> "https://s3.amazonaws.com/reprozip-files/busybox-x86_64",
   i686 |-> "https://s3.amazonaws.com/reprozip-files/busybox-i686"]

bundled_rpzsudo_url ==
  [x86_64 |-> "https://github.com/remram44/static-sudo/releases/download/current/rpzsudo-x86_64",
   i686 |-> "https://github.com/remram44/static-sudo/releases/download/current/rpzsudo-i686"]

docker_images_default ==
  [distribution |-> "debian",
   image |-> "debian:jessie",
   name |-> "Debian 8 'Jessie'"]

\* The Ubuntu entry's default with the top-level default pasted in.
docker_images_ubuntu_default_pasted ==
  [distribution |-> "debian",
   image |-> "debian:jessie",
   name |-> "Debian 8 'Jessie'"]

docker_images_ubuntu_default ==
  [distribution |-> "ubuntu",
   image |-> "ubuntu:15.10",
   name |-> "Ubuntu 15.10 'Wily'"]

docker_images_ubuntu ==
  [name |-> "^ubuntu$",
   versions |-> <<[version |-> "^12\\.04$",
       distribution |-> "ubuntu",
       image |-> "ubuntu:12.04",
       name |-> "Ubuntu 12.04 'Precise'"],
      [version |-> "^14\\.04$",
       distribution |-> "ubuntu",
       image |-> "ubuntu:14.04",
       name |-> "Ubuntu 14.04 'Trusty'"],
      [version |-> "^14\\.10$",
       distribution |-> "ubuntu",
       image |-> "ubuntu:14.10",
       name |-> "Ubuntu 14.10 'Utopic'"],
      [version |-> "^15\\.04$",
       distribution |-> "ubuntu",
       image |-> "ubuntu:15.04",
       name |-> "Ubuntu 15.04 'Vivid'"],
      [version |-> "^15\\.10$",
       distribution |-> "ubuntu",
       image |-> "ubuntu:15.10",
       name |-> "Ubuntu 15.10 'Wily'"],
      [version |-> "^16\\.04$",
       distribution |-> "ubuntu",
       image |-> "ubuntu:16.04",
       name |-> "Ubuntu 16.04 'Xenial'"]>>,
   default |-> docker_images_ubuntu_default]

docker_images_debian_default ==
  [distribution |-> "debian",
   image |-> "debian:jessie",
   name |-> "Debian 8 'Jessie'"]

docker_images_debian ==
  [name |-> "^debian$",
   versions |-> <<[version |-> "^(6(\\.|$))|(squeeze$)",
       distribution |-> "debian",
       image |-> "debian:squeeze",
       name |-> "Debian 6 'Squeeze'"],
      [version |-> "^(7(\\.|$))|(wheezy$)",
       distribution |-> "debian",
       image |-> "debian:wheezy",
       name |-> "Debian 7 'Wheezy'"],
      [version |-> "^(8(\\.|$))|(jessie$)",
       distribution |-> "debian",
       image |-> "debian:jessie",
       name |-> "Debian 8 'Jessie'"],
      [version |-> "^(9(\\.|$))|(stretch$)",
       distribution |-> "debian",
       image |-> "debian:stretch",
       name |-> "Debian 9 'Stretch'"]>>,
   default |-> docker_images_debian_default]

docker_images_centos_default ==
  [distribution |-> "centos",
   image |-> "centos:centos7",
   name |-> "CentOS 7"]

docker_images_centos ==
  [name |-> "^centos( linux)?$",
   versions |-> <<[version |-> "^5(\\.|$)",
       distribution |-> "centos",
       image |-> "centos:centos5",
       name |-> "CentOS 5"],
      [version |-> "^6(\\.|$)",
       distribution |-> "centos",
       image |-> "centos:centos6",
       name |-> "CentOS 6"],
      [version |-> "^7(\\.|$)",
       distribution |-> "centos",
       image |-> "centos:centos7",
       name |-> "CentOS 7"]>>,
   default |-> docker_images_centos_default]

bundled_docker_images ==
  [default |-> docker_images_default,
   images |-> <<docker_images_ubuntu,
           docker_images_debian,
           docker_images_centos>>]

vagrant_boxes_default ==
  [distribution |-> "debian",
   architectures |-> [i686 |-> "remram/debian-8-i386",
     x86_64 |-> "remram/debian-8-amd64"],
   name |-> "Debian 8 'Jessie'"]

vagrant_boxes_ubuntu_default ==
  [distribution |-> "ubuntu",
   architectures |-> [i686 |-> "bento/ubuntu-16.04-i386",
     x86_64 |-> "bento/ubuntu-16.04"],
   name |-> "Ubuntu 16.04 'Xenial'"]

vagrant_boxes_ubuntu ==
  [name |-> "^ubuntu$",
   versions |-> <<[version |-> "^12\\.04$",
       distribution |-> "ubuntu",
       architectures |-> [i686 |-> "hashicorp/precise32",
         x86_64 |-> "hashicorp/precise64"],
       name |-> "Ubuntu 12.04 'Precise'"],
      [version |-> "^14\\.04$",
       distribution |-> "ubuntu",
       architectures |-> [i686 |-> "ubuntu/trusty32",
         x86_64 |-> "ubuntu/trusty64"],
       name |-> "Ubuntu 14.04 'Trusty'"],
      [version |-> "^15\\.04$",
       distribution |-> "ubuntu",
       architectures |-> [i686 |-> "ubuntu/vivid32",
         x86_64 |-> "ubuntu/vivid64"],
       name |-> "Ubuntu 15.04 'Vivid'"],
      [version |-> "^15\\.10$",
       distribution |-> "ubuntu",
       architectures |-> [i686 |-> "ubuntu/wily32",
         x86_64 |-> "ubuntu/wily64"],
       name |-> "Ubuntu 15.10 'Wily'"],
      [version |-> "^16\\.04$",
       distribution |-> "ubuntu",
       architectures |-> [i686 |-> "bento/ubuntu-16.04-i386",
         x86_64 |-> "bento/ubuntu-16.04"],
       name |-> "Ubuntu 16.04 'Xenial'"]>>,
   default |-> vagrant_boxes_ubuntu_default]

vagrant_boxes_debian_default ==
  [distribution |-> "debian",
   architectures |-> [i686 |-> "remram/debian-8-i386",
     x86_64 |-> "remram/debian-8-amd64"],
   name |-> "Debian 8 'Jessie'"]

vagrant_boxes_debian ==
  [name |-> "^debian$",
   versions |-> <<[version |-> "^(7(\\.|$))|(wheezy$)",
       distribution |-> "debian",
       architectures |-> [i686 |-> "remram/debian-7-i386",
         x86_64 |-> "remram/debian-7-amd64"],
       name |-> "Debian 7 'Wheezy'"],
      [version |-> "^(8(\\.|$))|(jessie$)",
       distribution |-> "debian",
       architectures |-> [i686 |-> "remram/debian-8-i386",
         x86_64 |-> "remram/debian-8-amd64"],
       name |-> "Debian 8 'Jessie'"],
      [version |-> "^(9(\\.|$))|(stretch$)",
       distribution |-> "debian",
       architectures |-> [i686 |-> "remram/debian-9-i386",
         x86_64 |-> "remram/debian-9-amd64"],
       name |-> "Debian 9 'Stretch'"]>>,
   default |-> vagrant_boxes_debian_default]

vagrant_boxes_centos_default ==
  [distribution |-> "centos",
   architectures |-> [i686 |-> "bento/centos-6.7-i386",
     x86_64 |-> "bento/centos-6.7"],
   name |-> "CentOS 6.7"]

vagrant_boxes_centos ==
  [name |-> "^centos( linux)?$",
   versions |-> <<[version |-> "^5\\.",
       distribution |-> "centos",
       architectures |-> [i686 |-> "bento/centos-5.11-i386",
         x86_64 |-> "bento/centos-5.11"],
       name |-> "CentOS 5.11"],
      [version |-> "^6\\.",
       distribution |-> "centos",
       architectures |-> [i686 |-> "bento/centos-6.7-i386",
         x86_64 |-> "bento/centos-6.7"],
       name |-> "CentOS 6.7"],
      [version |-> "^7\\.",
       distribution |-> "centos",
       architectures |-> [x86_64 |-> "bento/centos-7.2"],
       name |-> "CentOS 7.2"]>>,
   default |-> vagrant_boxes_centos_default]

vagrant_boxes_fedora_default ==
  [distribution |-> "fedora",
   architectures |-> [i686 |-> "remram/fedora-24-i386",
     x86_64 |-> "remram/fedora-24-amd64"],
   name |-> "Fedora 24"]

vagrant_boxes_fedora ==
  [name |-> "^fedora$",
   versions |-> <<[version |-> "^22$",
       distribution |-> "fedora",
       architectures |-> [i686 |-> "remram/fedora-22-i386",
         x86_64 |-> "remram/fedora-22-amd64"],
       name |-> "Fedora 22"],
      [version |-> "^23$",
       distribution |-> "fedora",
       architectures |-> [i686 |-> "remram/fedora-23-i386",
         x86_64 |-> "remram/fedora-23-amd64"],
       name |-> "Fedora 23"],
      [version |-> "^24$",
       distribution |-> "fedora",
       architectures |-> [i686 |-> "remram/fedora-24-i386",
         x86_64 |-> "remram/fedora-24-amd64"],
       name |-> "Fedora 24"]>>,
   default |-> vagrant_boxes_fedora_default]

bundled_vagrant_boxes ==
  [default |-> vagrant_boxes_default,
   boxes |-> <<vagrant_boxes_ubuntu,
           vagrant_boxes_debian,
           vagrant_boxes_centos,
           vagrant_boxes_fedora>>]

vagrant_boxes_x_default ==
  [distribution |-> "debian",
   architectures |-> [i686 |-> "remram/debian-8-amd64-x",
     x86_64 |-> "remram/debian-8-amd64-x"],
   name |-> "Debian 8 'Jessie'"]

vagrant_boxes_x_ubuntu_default ==
  [distribution |-> "ubuntu",
   architectures |-> [i686 |-> "remram/ubuntu-1604-amd64-x",
     x86_64 |-> "remram/ubuntu-1604-amd64-x"],
   name |-> "Ubuntu 16.04 'Xenial'"]

vagrant_boxes_x_ubuntu ==
  [name |-> "^ubuntu$",
   versions |-> <<[version |-> "^16\\.04$",
       distribution |-> "ubuntu",
       architectures |-> [i686 |-> "remram/ubuntu-1604-amd64-x",
         x86_64 |-> "remram/ubuntu-1604-amd64-x"],
       name |-> "Ubuntu 16.04 'Xenial'"]>>,
   default |-> vagrant_boxes_x_ubuntu_default]

vagrant_boxes_x_debian_default ==
  [distribution |-> "debian",
   architectures |-> [i686 |-> "remram/debian-8-amd64-x",
     x86_64 |-> "remram/debian-8-amd64-x"],
   name |-> "Debian 8 'Jessie'"]

\* The Debian entry of vagrant_boxes_x written without its "default".
vagrant_boxes_x_debian_no_default ==
  [name |-> "^debian$",
   versions |-> <<[version |-> "^(8(\\.|$))|(jessie$)",
       distribution |-> "debian",
       architectures |-> [i686 |-> "remram/debian-8-amd64-x",
         x86_64 |-> "remram/debian-8-amd64-x"],
       name |-> "Debian 8 'Jessie'"]>>]

vagrant_boxes_x_debian ==
  [name |-> "^debian$",
   versions |-> <<[version |-> "^(8(\\.|$))|(jessie$)",
       distribution |-> "debian",
       architectures |-> [i686 |-> "remram/debian-8-amd64-x",
         x86_64 |-> "remram/debian-8-amd64-x"],
       name |-> "Debian 8 'Jessie'"]>>,
   default |-> vagrant_boxes_x_debian_default]

bundled_vagrant_boxes_x ==
  [default |-> vagrant_boxes_x_default,
   boxes |-> <<vagrant_boxes_x_ubuntu,
           vagrant_boxes_x_debian>>]

V_1_1_0 == <<"1", ".", "1", ".", "0">>

\* json.loads(bundled_parameters)
bundled_parameters ==
  JsonObject(StrVersion(V_1_1_0),
             [busybox_url |-> bundled_busybox_url,
              rpzsudo_url |-> bundled_rpzsudo_url,
              docker_images |-> bundled_docker_images,
              vagrant_boxes |-> bundled_vagrant_boxes,
              vagrant_boxes_x |-> bundled_vagrant_boxes_x])

(***************************************************************************)
(* What the server may answer.                                             *)
(***************************************************************************)
VersionAlphabet == {"1", "2", ".", "a"}

\* Version strings named by the specification's examples, and some with
\* characters outside VersionAlphabet.
NamedVersions ==
  {<<"1", ".", "0">>, <<"2", ".", "0">>, <<"1", ".", "1", ".", "9">>,
   <<"1", ".", "1", ".", "0">>, <<"1", ".", "1", "0">>,
   <<"1", ".", "1", "-", "1">>, <<"0", "1", ".", "1">>,
   <<"1", ".", "1", "9", "a">>}

VersionStrings == StringsUpTo(VersionAlphabet, MaxVerLen) \cup NamedVersions

DocVersions ==
  {NoVersion, NonStrVersion} \cup {StrVersion(s) : s \in VersionStrings}

\* Sections of a downloaded document: none of these payloads is a payload
\* of the bundled document.
remote_docker_images ==
  [default |-> [distribution |-> "debian",
                image |-> "debian:stretch",
                name |-> "Debian 9 'Stretch'"],
   images |-> <<>>]
remote_busybox_url ==
  [x86_64 |-> "https://example.org/busybox-x86_64",
   i686 |-> "https://example.org/busybox-i686"]

RemoteSections ==
  {[docker_images |-> remote_docker_images],
   [busybox_url |-> remote_busybox_url]}

\* The values a well-formed JSON text may parse to.
FetchedDocuments ==
  {JsonNull, JsonArray}
    \cup {JsonObject(v, secs) : v \in DocVersions, secs \in RemoteSections}

\* The content of the cache file: text that json.load parses to `value`,
\* text it rejects with ValueError, or no file.
NoFile == [exists |-> FALSE, valid |-> FALSE, value |-> None]
NotJson == [exists |-> TRUE, valid |-> FALSE, value |-> None]
JsonText(doc) == [exists |-> TRUE, valid |-> TRUE, value |-> doc]

FileContents == {NotJson} \cup {JsonText(doc) : doc \in FetchedDocuments}

\* Section names asked of get_parameter.
QuerySections == {"docker_images", "busybox_url", "no_such_section"}

(***************************************************************************)
(* The REPROZIP_PARAMETERS environment variable (lines 37-46).             *)
(***************************************************************************)
default_url ==
  <<"h", "t", "t", "p", "s", ":", "/", "/", "r", "e", "p", "r", "o", "z",
    "i", "p", "-", "s", "t", "a", "t", "s", ".", "p", "o", "l", "y", ".",
    "e", "d", "u", "/", "p", "a", "r", "a", "m", "e", "t", "e", "r", "s",
    "/">>

HttpPrefix == <<"h", "t", "t", "p", ":", "/", "/">>
HttpsPrefix == <<"h", "t", "t", "p", "s", ":", "/", "/">>

\* The tuple of line 44.
EnabledValues ==
  {NoStr, Str(<<>>), Str(<<"1">>), Str(<<"o", "n">>),
   Str(<<"e", "n", "a", "b", "l", "e", "d">>), Str(<<"y", "e", "s">>),
   Str(<<"t", "r", "u", "e">>)}

\* Values the variable is given in the model.
OverrideUrls ==
  {Str(HttpPrefix \o <<"t", "/">>), Str(HttpsPrefix \o <<"t", "/", "p", "/">>)}
OtherValues ==
  {Str(<<"d", "i", "s", "a", "b", "l", "e", "d">>), Str(<<"0">>),
   Str(<<"O", "n">>), Str(<<"h", "t", "t", "p", ":">>)}
EnvValues == EnabledValues \cup OverrideUrls \cup OtherValues

\* Line 39-40: a truthy value that starts with http:// or https://.
is_override_url(env) ==
  /\ env.isstr
  /\ env.s # <<>>
  /\ (startswith(env.s, HttpPrefix) \/ startswith(env.s, HttpsPrefix))

\* Line 44 with a list of "off" values in place of the list of "on" values.
network_disabled_by_list(env) ==
  /\ env.isstr
  /\ env.s \in {<<"0">>, <<"o", "f", "f">>, <<"n", "o">>,
                <<"f", "a", "l", "s", "e">>}

\* Line 44: reached when line 39 is false; the bundled document is used
\* without a download.
network_disabled(env) ==
  /\ ~is_override_url(env)
  /\ env \notin EnabledValues

\* Lines 37-43: the value of `url` when the download is attempted.
remote_url(env) == IF is_override_url(env) THEN env.s ELSE default_url

\* reprounzip.main.__version__ (line 49).
reprounzip_version == <<"1", ".", "0", ".", "8">>

\* Line 51 without the version appended.
download_url_bare(u) == u

\* '%s%s' % (url, version), line 51.
download_url(u) == u \o reprounzip_version

(***************************************************************************)
(* Regular expressions of the catalogs.  re_compile is the parse of each   *)
(* pattern text the bundled document holds; match_ends and re_search are   *)
(* the matching of the parsed pattern against a string.                    *)
(***************************************************************************)
Lit(c) == [op |-> "lit", c |-> c, args |-> <<>>]
Bol == [op |-> "bol", c |-> "", args |-> <<>>]
Eol == [op |-> "eol", c |-> "", args |-> <<>>]
Cat(args) == [op |-> "cat", c |-> "", args |-> args]
Alt(args) == [op |-> "alt", c |-> "", args |-> args]
Opt(r) == [op |-> "opt", c |-> "", args |-> <<r>>]

re_compile(pattern) ==
  CASE pattern = "^(6(\\.|$))|(squeeze$)" ->
       Alt(<<Cat(<<Bol, Cat(<<Lit("6"), Alt(<<Lit("."), Eol>>)>>)>>), Cat(<<Lit("s"), Lit("q"), Lit("u"), Lit("e"), Lit("e"), Lit("z"), Lit("e"), Eol>>)>>)
  [] pattern = "^(7(\\.|$))|(wheezy$)" ->
       Alt(<<Cat(<<Bol, Cat(<<Lit("7"), Alt(<<Lit("."), Eol>>)>>)>>), Cat(<<Lit("w"), Lit("h"), Lit("e"), Lit("e"), Lit("z"), Lit("y"), Eol>>)>>)
  [] pattern = "^(8(\\.|$))|(jessie$)" ->
       Alt(<<Cat(<<Bol, Cat(<<Lit("8"), Alt(<<Lit("."), Eol>>)>>)>>), Cat(<<Lit("j"), Lit("e"), Lit("s"), Lit("s"), Lit("i"), Lit("e"), Eol>>)>>)
  [] pattern = "^(9(\\.|$))|(stretch$)" ->
       Alt(<<Cat(<<Bol, Cat(<<Lit("9"), Alt(<<Lit("."), Eol>>)>>)>>), Cat(<<Lit("s"), Lit("t"), Lit("r"), Lit("e"), Lit("t"), Lit("c"), Lit("h"), Eol>>)>>)
  [] pattern = "^12\\.04$" ->
       Cat(<<Bol, Lit("1"), Lit("2"), Lit("."), Lit("0"), Lit("4"), Eol>>)
  [] pattern = "^14\\.04$" ->
       Cat(<<Bol, Lit("1"), Lit("4"), Lit("."), Lit("0"), Lit("4"), Eol>>)
  [] pattern = "^14\\.10$" ->
       Cat(<<Bol, Lit("1"), Lit("4"), Lit("."), Lit("1"), Lit("0"), Eol>>)
  [] pattern = "^15\\.04$" ->
       Cat(<<Bol, Lit("1"), Lit("5"), Lit("."), Lit("0"), Lit("4"), Eol>>)
  [] pattern = "^15\\.10$" ->
       Cat(<<Bol, Lit("1"), Lit("5"), Lit("."), Lit("1"), Lit("0"), Eol>>)
  [] pattern = "^16\\.04$" ->
       Cat(<<Bol, Lit("1"), Lit("6"), Lit("."), Lit("0"), Lit("4"), Eol>>)
  [] pattern = "^22$" ->
       Cat(<<Bol, Lit("2"), Lit("2"), Eol>>)
  [] pattern = "^23$" ->
       Cat(<<Bol, Lit("2"), Lit("3"), Eol>>)
  [] pattern = "^24$" ->
       Cat(<<Bol, Lit("2"), Lit("4"), Eol>>)
  [] pattern = "^5(\\.|$)" ->
       Cat(<<Bol, Lit("5"), Alt(<<Lit("."), Eol>>)>>)
  [] pattern = "^5\\." ->
       Cat(<<Bol, Lit("5"), Lit(".")>>)
  [] pattern = "^6(\\.|$)" ->
       Cat(<<Bol, Lit("6"), Alt(<<Lit("."), Eol>>)>>)
  [] pattern = "^6\\." ->
       Cat(<<Bol, Lit("6"), Lit(".")>>)
  [] pattern = "^7(\\.|$)" ->
       Cat(<<Bol, Lit("7"), Alt(<<Lit("."), Eol>>)>>)
  [] pattern = "^7\\." ->
       Cat(<<Bol, Lit("7"), Lit(".")>>)
  [] pattern = "^centos( linux)?$" ->
       Cat(<<Bol, Lit("c"), Lit("e"), Lit("n"), Lit("t"), Lit("o"), Lit("s"), Opt(Cat(<<Lit(" "), Lit("l"), Lit("i"), Lit("n"), Lit("u"), Lit("x")>>)), Eol>>)
  [] pattern = "^debian$" ->
       Cat(<<Bol, Lit("d"), Lit("e"), Lit("b"), Lit("i"), Lit("a"), Lit("n"), Eol>>)
  [] pattern = "^fedora$" ->
       Cat(<<Bol, Lit("f"), Lit("e"), Lit("d"), Lit("o"), Lit("r"), Lit("a"), Eol>>)
  [] pattern = "^ubuntu$" ->
       Cat(<<Bol, Lit("u"), Lit("b"), Lit("u"), Lit("n"), Lit("t"), Lit("u"), Eol>>)

\* The positions (1 .. Len(s) + 1) at which a match of r that starts at
\* position i of s may end.
RECURSIVE match_ends(_, _, _)
RECURSIVE cat_ends(_, _, _)
match_ends(r, s, i) ==
  CASE r.op = "lit" -> IF i <= Len(s) /\ s[i] = r.c THEN {i + 1} ELSE {}
    [] r.op = "bol" -> IF i = 1 THEN {i} ELSE {}
    [] r.op = "eol" -> IF i = Len(s) + 1 THEN {i} ELSE {}
    [] r.op = "cat" -> cat_ends(r.args, s, {i})
    [] r.op = "alt" ->
         UNION {match_ends(r.args[k], s, i) : k \in DOMAIN r.args}
    [] r.op = "opt" -> {i} \cup match_ends(r.args[1], s, i)
cat_ends(rs, s, starts) ==
  IF rs = <<>> THEN starts
  ELSE cat_ends(Tail(rs), s,
                UNION {match_ends(Head(rs), s, i) : i \in starts})

\* re.search(pattern, s) is not None: a match may start anywhere.
re_search(pattern, s) ==
  \E i \in 1 .. Len(s) + 1 : match_ends(re_compile(pattern), s, i) # {}

\* str.lower on the characters of CharOrder.
lower_char(c) ==
  LET i == CharCode(c)
  IN IF CharCode("A") <= i /\ i <= CharCode("Z") THEN CharOrder[i + 26] ELSE c
lower(s) == [i \in DOMAIN s |-> lower_char(s[i])]

(***************************************************************************)
(* resolveImageOrBox: what the unpackers do with a catalog section.        *)
(***************************************************************************)
\* The list of entries: "images" in docker_images, "boxes" in the others.
catalog_entries(catalog) ==
  IF "images" \in DOMAIN catalog THEN catalog.images ELSE catalog.boxes

\* The first version rule, in listed order, whose pattern matches.
RECURSIVE find_version(_, _)
find_version(versions, v) ==
  IF versions = <<>> THEN None
  ELSE IF re_search(Head(versions).version, v) THEN Head(versions)
  ELSE find_version(Tail(versions), v)

\* The first entry, in listed order, whose name pattern matches.
RECURSIVE find_entry(_, _)
find_entry(entries, name) ==
  IF entries = <<>> THEN None
  ELSE IF re_search(Head(entries).name, name) THEN Head(entries)
  ELSE find_entry(Tail(entries), name)

resolveImageOrBox(catalog, distribution, v) ==
  LET e == find_entry(catalog_entries(catalog), lower(distribution))
  IN IF e = None THEN catalog.default
     ELSE LET r == find_version(e.versions, v)
          IN IF r = None THEN e.default ELSE r

\* A catalog whose patterns overlap, built from patterns of the bundled
\* document: two entries match "ubuntu", three rules match "6.1".
overlap_catalog ==
  [default |-> [distribution |-> "none", image |-> "d0", name |-> "D0"],
   images |->
     <<[name |-> "^ubuntu$",
        versions |->
          <<[version |-> "^6\\.", distribution |-> "a", image |-> "a1",
             name |-> "A1"],
            [version |-> "^(6(\\.|$))|(squeeze$)", distribution |-> "a",
             image |-> "a2", name |-> "A2"],
            [version |-> "^6(\\.|$)", distribution |-> "a", image |-> "a3",
             name |-> "A3"]>>,
        default |-> [distribution |-> "a", image |-> "a0", name |-> "A0"]],
       [name |-> "^ubuntu$",
        versions |->
          <<[version |-> "^6\\.", distribution |-> "b", image |-> "b1",
             name |-> "B1"]>>,
        default |-> [distribution |-> "b", image |-> "b0", name |-> "B0"]]>>]

Catalogs ==
  {bundled_docker_images, bundled_vagrant_boxes, bundled_vagrant_boxes_x,
   overlap_catalog}

DistributionNames ==
  {<<"U", "b", "u", "n", "t", "u">>, <<"u", "b", "u", "n", "t", "u">>,
   <<"U", "B", "U", "N", "T", "U">>, <<"g", "e", "n", "t", "o", "o">>,
   <<"d", "e", "b", "i", "a", "n">>, <<"D", "e", "b", "i", "a", "n">>,
   <<"c", "e", "n", "t", "o", "s">>,
   <<"C", "e", "n", "t", "O", "S", " ", "L", "i", "n", "u", "x">>,
   <<"x", "u", "b", "u", "n", "t", "u">>, <<"u", "b", "u", "n", "t", "u", "2">>,
   <<"f", "e", "d", "o", "r", "a">>, <<>>}

DistributionVersions ==
  {<<"1", "4", ".", "0", "4">>, <<"9", "9", ".", "9", "9">>, <<"1", ".", "0">>,
   <<"1", "2", ".", "0", "4">>, <<"1", "6", ".", "0", "4">>,
   <<"1", "1", "4", ".", "0", "4">>, <<"1", "4", ".", "0", "4", "5">>,
   <<"1", "4", "-", "0", "4">>,
   <<"6">>, <<"6", ".", "1">>, <<"6", "1">>, <<"6", ".", "w", "h", "e", "e", "z", "y">>,
   <<"s", "q", "u", "e", "e", "z", "e">>, <<"j", "e", "s", "s", "i", "e">>,
   <<"8">>, <<"7", ".", "1">>, <<"5">>, <<"5", ".", "1", "1">>, <<"2", "3">>,
   <<>>}

Queries ==
  [catalog : Catalogs, distribution : DistributionNames,
   version : DistributionVersions]

(***************************************************************************)
(* The process.                                                            *)
(***************************************************************************)
VARIABLES
  env_var,      \* os.environ.get('REPROZIP_PARAMETERS'), fixed per process
  python,       \* major version of the interpreter: 2 or 3
  parameters,   \* the module global `parameters`
  cache,        \* content of the cache file parameters.json
  requests,     \* calls of download_file, in order: the URL and the outcome
  removals,     \* outcomes of filename.remove(), in order
  called,       \* the functions called so far, in order
  pc,           \* per thread: the line it is about to execute, or "idle"
  op,           \* per thread: the function it was called into
  section,      \* per thread: get_parameter's argument
  url,          \* per thread: the local `url`
  entry,        \* per thread: the global `parameters` when the call began
  result,       \* per thread: what its last call returned
  raised,       \* per thread: the exception its last call raised, or ""
  query,        \* the catalog, distribution and version being resolved
  selected      \* the record the lookup selected

vars ==
  <<env_var, python, parameters, cache, requests, removals, called, pc, op,
    section, url, entry, result, raised, query, selected>>

proc_vars == <<op, section, url, entry>>
lookup_vars == <<query, selected>>

NoQuery == [catalog |-> None, distribution |-> <<>>, version |-> <<>>]

Init ==
  /\ env_var \in EnvValues
  /\ python \in {2, 3}
  /\ parameters = None
  /\ cache = NoFile
  /\ requests = <<>>
  /\ removals = <<>>
  /\ called = <<>>
  /\ pc = [t \in Threads |-> "idle"]
  /\ op = [t \in Threads |-> "none"]
  /\ section = [t \in Threads |-> ""]
  /\ url = [t \in Threads |-> <<>>]
  /\ entry = [t \in Threads |-> None]
  /\ result = [t \in Threads |-> None]
  /\ raised = [t \in Threads |-> ""]
  /\ query = NoQuery
  /\ selected = None

\* The call of thread t ends: it returns `value`, or raises `exc`.
finish(t, value, exc) ==
  /\ pc' = [pc EXCEPT ![t] = "idle"]
  /\ result' = [result EXCEPT ![t] = value]
  /\ raised' = [raised EXCEPT ![t] = exc]

goto(t, line) ==
  /\ pc' = [pc EXCEPT ![t] = line]
  /\ UNCHANGED <<result, raised>>

\* update_parameters returns: to line 86 of get_parameter when it was
\* called at line 84, to the caller otherwise.
update_return(t) ==
  IF op[t] = "get_parameter" THEN goto(t, "L86") ELSE finish(t, None, "")

\* A caller enters get_parameter(sec).
call_get_parameter(t, sec) ==
  /\ pc[t] = "idle"
  /\ Len(called) < MaxCalls
  /\ called' = Append(called, "get_parameter")
  /\ op' = [op EXCEPT ![t] = "get_parameter"]
  /\ section' = [section EXCEPT ![t] = sec]
  /\ entry' = [entry EXCEPT ![t] = parameters]
  /\ pc' = [pc EXCEPT ![t] = "L83"]
  /\ result' = [result EXCEPT ![t] = None]
  /\ raised' = [raised EXCEPT ![t] = ""]
  /\ UNCHANGED <<env_var, python, parameters, cache, requests, removals, url>>
  /\ UNCHANGED lookup_vars

\* A caller enters update_parameters().
call_update_parameters(t) ==
  /\ pc[t] = "idle"
  /\ Len(called) < MaxCalls
  /\ called' = Append(called, "update_parameters")
  /\ op' = [op EXCEPT ![t] = "update_parameters"]
  /\ section' = [section EXCEPT ![t] = ""]
  /\ entry' = [entry EXCEPT ![t] = parameters]
  /\ pc' = [pc EXCEPT ![t] = "L34"]
  /\ result' = [result EXCEPT ![t] = None]
  /\ raised' = [raised EXCEPT ![t] = ""]
  /\ UNCHANGED <<env_var, python, parameters, cache, requests, removals, url>>
  /\ UNCHANGED lookup_vars

\* Lines 83-84: if parameters is None: update_parameters()
get_parameter_check(t) ==
  /\ pc[t] = "L83"
  /\ goto(t, IF parameters = None THEN "L34" ELSE "L86")
  /\ UNCHANGED <<env_var, python, parameters, cache, requests, removals, called>>
  /\ UNCHANGED proc_vars
  /\ UNCHANGED lookup_vars

\* Lines 34-35: if parameters is not None: return
update_parameters_check(t) ==
  /\ pc[t] = "L34"
  /\ IF parameters # None THEN update_return(t) ELSE goto(t, "L37")
  /\ UNCHANGED <<env_var, python, parameters, cache, requests, removals, called>>
  /\ UNCHANGED proc_vars
  /\ UNCHANGED lookup_vars

\* Lines 37-46: choose the URL, or load the bundled document and return.
update_parameters_env(t) ==
  /\ pc[t] = "L37"
  /\ IF network_disabled(env_var)
       THEN /\ parameters' = bundled_parameters
            /\ update_return(t)
            /\ url' = url
       ELSE /\ url' = [url EXCEPT ![t] = remote_url(env_var)]
            /\ goto(t, "L48")
            /\ parameters' = parameters
  /\ UNCHANGED <<env_var, python, cache, requests, removals, called>>
  /\ UNCHANGED <<op, section, entry>>
  /\ UNCHANGED lookup_vars

\* The record of one call of download_file: the URL asked for and how the
\* call ended ("raised", or the kind of text it left in the cache file).
request(u, text) ==
  [url |-> download_url(u),
   outcome |-> IF ~text.exists THEN "raised"
               ELSE IF ~text.valid THEN "not json"
               ELSE "json"]

\* Lines 48-57: download_file(url + version, None, cachename=...).  It
\* either raises (caught by `except Exception`) or leaves the downloaded
\* text in the cache file and returns its path.
update_parameters_download(t) ==
  /\ pc[t] = "L48"
  /\ \E ok \in BOOLEAN :
       IF ok
         THEN \E text \in FileContents :
                /\ requests' = Append(requests, request(url[t], text))
                /\ cache' = text
                /\ goto(t, "L59")
         ELSE /\ requests' = Append(requests, request(url[t], NoFile))
              /\ cache' = cache
              /\ goto(t, "L77")
  /\ UNCHANGED <<env_var, python, parameters, removals, called>>
  /\ UNCHANGED proc_vars
  /\ UNCHANGED lookup_vars

\* Lines 59-64: parameters = json.load(fp).  A missing file raises IOError
\* at filename.open(), which no handler catches.
update_parameters_load(t) ==
  /\ pc[t] = "L59"
  /\ IF ~cache.exists
       THEN finish(t, None, "IOError") /\ parameters' = parameters
       ELSE IF ~cache.valid
         THEN goto(t, "L65") /\ parameters' = parameters
         ELSE goto(t, "L70") /\ parameters' = cache.value
  /\ UNCHANGED <<env_var, python, cache, requests, removals, called>>
  /\ UNCHANGED proc_vars
  /\ UNCHANGED lookup_vars

\* Lines 65-68 without the try: an OSError of filename.remove() reaches the
\* caller.
update_parameters_remove_unguarded(t) ==
  /\ pc[t] = "L65"
  /\ \E ok \in BOOLEAN :
       /\ ok => cache.exists
       /\ removals' = Append(removals, IF ok THEN "removed" ELSE "OSError")
       /\ cache' = IF ok THEN NoFile ELSE cache
       /\ IF ok THEN goto(t, "L77") ELSE finish(t, None, "OSError")
  /\ UNCHANGED <<env_var, python, parameters, requests, called>>
  /\ UNCHANGED proc_vars
  /\ UNCHANGED lookup_vars

\* Lines 65-68: filename.remove(), OSError swallowed.
update_parameters_remove(t) ==
  /\ pc[t] = "L65"
  /\ \E ok \in BOOLEAN :
       /\ ok => cache.exists
       /\ removals' = Append(removals, IF ok THEN "removed" ELSE "OSError")
       /\ cache' = IF ok THEN NoFile ELSE cache
  /\ goto(t, "L77")
  /\ UNCHANGED <<env_var, python, parameters, requests, called>>
  /\ UNCHANGED proc_vars
  /\ UNCHANGED lookup_vars

\* What lines 70-75 do with the value of the global: "accept" (return),
\* "reject" (fall through to line 77), or the exception raised.
version_check(value, py) ==
  IF ~is_dict(value) THEN "AttributeError"
  ELSE LET v == get_version(value)
       IN IF v.tag # "str" THEN "TypeError"
          ELSE version_gate(LooseVersion(v.s), py)

\* Lines 70-75 with a rejected document purged from the cache.
update_parameters_version_purging(t) ==
  /\ pc[t] = "L70"
  /\ LET g == version_check(parameters, python)
     IN /\ IF g = "accept" THEN update_return(t)
           ELSE IF g = "reject" THEN goto(t, "L77")
           ELSE finish(t, None, g)
        /\ removals' = IF g = "reject" THEN Append(removals, "removed")
                       ELSE removals
        /\ cache' = IF g = "reject" THEN NoFile ELSE cache
  /\ UNCHANGED <<env_var, python, parameters, requests, called>>
  /\ UNCHANGED proc_vars
  /\ UNCHANGED lookup_vars

\* Lines 70-75.
update_parameters_version(t) ==
  /\ pc[t] = "L70"
  /\ LET g == version_check(parameters, python)
     IN IF g = "accept" THEN update_return(t)
        ELSE IF g = "reject" THEN goto(t, "L77")
        ELSE finish(t, None, g)
  /\ UNCHANGED <<env_var, python, parameters, cache, requests, removals, called>>
  /\ UNCHANGED proc_vars
  /\ UNCHANGED lookup_vars

\* Line 77 left out: the function returns without the fallback.
update_parameters_bundled_skipped(t) ==
  /\ pc[t] = "L77"
  /\ parameters' = parameters
  /\ update_return(t)
  /\ UNCHANGED <<env_var, python, cache, requests, removals, called>>
  /\ UNCHANGED proc_vars
  /\ UNCHANGED lookup_vars

\* Line 77: parameters = json.loads(bundled_parameters)
update_parameters_bundled(t) ==
  /\ pc[t] = "L77"
  /\ parameters' = bundled_parameters
  /\ update_return(t)
  /\ UNCHANGED <<env_var, python, cache, requests, removals, called>>
  /\ UNCHANGED proc_vars
  /\ UNCHANGED lookup_vars

\* Line 86 as parameters[section]: a missing section raises KeyError.
get_parameter_return_subscript(t) ==
  /\ pc[t] = "L86"
  /\ IF ~is_dict(parameters) THEN finish(t, None, "TypeError")
     ELSE IF section[t] \in DOMAIN parameters.sections
       THEN finish(t, parameters.sections[section[t]], "")
       ELSE finish(t, None, "KeyError")
  /\ UNCHANGED <<env_var, python, parameters, cache, requests, removals, called>>
  /\ UNCHANGED proc_vars
  /\ UNCHANGED lookup_vars

\* Line 86: return parameters.get(section, None)
get_parameter_return(t) ==
  /\ pc[t] = "L86"
  /\ IF is_dict(parameters)
       THEN finish(t, dict_get(parameters, section[t]), "")
       ELSE finish(t, None, "AttributeError")
  /\ UNCHANGED <<env_var, python, parameters, cache, requests, removals, called>>
  /\ UNCHANGED proc_vars
  /\ UNCHANGED lookup_vars

\* One step of thread t.
step(t) ==
  \/ \E sec \in QuerySections : call_get_parameter(t, sec)
  \/ call_update_parameters(t)
  \/ get_parameter_check(t)
  \/ update_parameters_check(t)
  \/ update_parameters_env(t)
  \/ update_parameters_download(t)
  \/ update_parameters_load(t)
  \/ update_parameters_remove(t)
  \/ update_parameters_version(t)
  \/ update_parameters_bundled(t)
  \/ get_parameter_return(t)

\* Sequential callers: the process calls into the module from one thread.
SequentialThreads == {1}

Next == \E t \in SequentialThreads : step(t)

Spec == Init /\ [][Next]_vars

(***************************************************************************)
(* Concurrent callers: every thread of the process may call into the       *)
(* module, and the threads' statements interleave.  The module has no lock. *)
(***************************************************************************)
\* What the server answers while threads race: text that is not JSON, an
\* array, and documents whose version is accepted ("1.1"), rejected ("1.0")
\* or empty.
ConcVersions ==
  {StrVersion(<<"1", ".", "1">>), StrVersion(<<"1", ".", "0">>),
   StrVersion(<<>>)}

ConcDocuments ==
  {JsonArray}
    \cup {JsonObject(v, [docker_images |-> remote_docker_images]) :
            v \in ConcVersions}

ConcFileContents == {NotJson} \cup {JsonText(doc) : doc \in ConcDocuments}

\* Lines 48-57 with the server's answer drawn from ConcFileContents.
conc_download(t) ==
  /\ update_parameters_download(t)
  /\ cache' \in {NoFile} \cup ConcFileContents

\* One step of thread t among concurrent callers.
conc_step(t) ==
  \/ \E sec \in QuerySections : call_get_parameter(t, sec)
  \/ call_update_parameters(t)
  \/ get_parameter_check(t)
  \/ update_parameters_check(t)
  \/ update_parameters_env(t)
  \/ conc_download(t)
  \/ update_parameters_load(t)
  \/ update_parameters_remove(t)
  \/ update_parameters_version(t)
  \/ update_parameters_bundled(t)
  \/ get_parameter_return(t)

ConcNext == \E t \in Threads : conc_step(t)

ConcSpec == Init /\ [][ConcNext]_vars

(***************************************************************************)
(* A process started with a cache directory left by earlier runs: the file *)
(* parameters.json may be absent, hold a document, or hold text that is    *)
(* not JSON.                                                               *)
(***************************************************************************)
CachedFiles ==
  {NoFile, NotJson,
   JsonText(JsonObject(StrVersion(<<"1", ".", "1">>),
                       [docker_images |-> remote_docker_images]))}

\* One value of REPROZIP_PARAMETERS for each branch of lines 39-46.
CacheEnvValues ==
  {NoStr, Str(<<"d", "i", "s", "a", "b", "l", "e", "d">>),
   Str(HttpPrefix \o <<"t", "/">>)}

CacheInit ==
  /\ env_var \in CacheEnvValues
  /\ python = 3
  /\ parameters = None
  /\ cache \in CachedFiles
  /\ requests = <<>>
  /\ removals = <<>>
  /\ called = <<>>
  /\ pc = [t \in Threads |-> "idle"]
  /\ op = [t \in Threads |-> "none"]
  /\ section = [t \in Threads |-> ""]
  /\ url = [t \in Threads |-> <<>>]
  /\ entry = [t \in Threads |-> None]
  /\ result = [t \in Threads |-> None]
  /\ raised = [t \in Threads |-> ""]
  /\ query = NoQuery
  /\ selected = None

CacheSpec == CacheInit /\ [][Next]_vars

(***************************************************************************)
(* The lookup on its own: the inputs are drawn at the start, one step      *)
(* applies resolveImageOrBox.                                              *)
(***************************************************************************)
LookupInit ==
  /\ env_var = NoStr
  /\ python = 3
  /\ parameters = bundled_parameters
  /\ cache = NoFile
  /\ requests = <<>>
  /\ removals = <<>>
  /\ called = <<>>
  /\ pc = [t \in Threads |-> "idle"]
  /\ op = [t \in Threads |-> "none"]
  /\ section = [t \in Threads |-> ""]
  /\ url = [t \in Threads |-> <<>>]
  /\ entry = [t \in Threads |-> None]
  /\ result = [t \in Threads |-> None]
  /\ raised = [t \in Threads |-> ""]
  /\ query \in Queries
  /\ selected = None

resolve ==
  /\ selected = None
  /\ selected' = resolveImageOrBox(query.catalog, query.distribution,
                                   query.version)
  /\ UNCHANGED <<env_var, python, parameters, cache, requests, removals,
                 called, pc, op, section, url, entry, result, raised, query>>

LookupNext == resolve

LookupSpec == LookupInit /\ [][LookupNext]_vars

(***************************************************************************)
(* Properties.                                                             *)
(***************************************************************************)
\* The thread is between calls and has made one.
returned(t) == pc[t] = "idle" /\ op[t] # "none"

\* No call of download_file ended well.
every_fetch_failed ==
  /\ requests # <<>>
  /\ \A i \in DOMAIN requests : requests[i].outcome = "raised"

\* C1: loading never fails the caller.  Whatever the single download
\* gives (an exception, text that is not JSON, a document of any content
\* and version), no call of update_parameters or get_parameter raises, and
\* when a call has returned the global holds a usable dataset (a dict).
C1_LoadingNeverFails ==
  \A t \in Threads :
    /\ raised[t] = ""
    /\ returned(t) => is_dict(parameters)

\* 1.1 <= version < 1.2 on the dotted components of a version entry,
\* numbers before letters; an entry with no components to compare (a
\* non-string, the empty string) is not in the window.
C2_in_window(v) ==
  /\ v.tag = "str"
  /\ v.s # <<>>
  /\ LET c == components(component_split(v.s))
     IN /\ list_cmp(<<IntComp(1), IntComp(1)>>, c, 2) \in {"lt", "eq"}
        /\ list_cmp(c, <<IntComp(1), IntComp(2)>>, 2) = "lt"

\* C2: the version gate.  When the calls have ended and the downloaded
\* text parsed to a dict, the global is that dict if its version (1.0
\* when absent) is in [1.1, 1.2), and the bundled document otherwise.
C2_VersionGate ==
  ((\A t \in Threads : pc[t] = "idle")
     /\ called # <<>> /\ cache.exists /\ cache.valid /\ is_dict(cache.value))
  => parameters = IF C2_in_window(get_version(cache.value))
                    THEN cache.value
                    ELSE bundled_parameters

\* C3: load once.  Over any sequence of get_parameter calls,
\* download_file is called at most once.
C3_FetchAtMostOnce ==
  (\A i \in DOMAIN called : called[i] = "get_parameter")
  => Len(requests) <= 1

\* C4: fallback correctness.  When download_file raised, a get_parameter
\* call returns, for every section, the payload the bundled document has
\* for it (None for a section it does not have).
C4_FallbackPayload ==
  \A t \in Threads :
    (returned(t) /\ op[t] = "get_parameter" /\ every_fetch_failed)
    => /\ raised[t] = ""
       /\ result[t] = IF section[t] \in DOMAIN bundled_parameters.sections
                        THEN bundled_parameters.sections[section[t]]
                        ELSE None

C4_Witness ==
  \E t \in Threads :
    /\ returned(t) /\ op[t] = "get_parameter" /\ every_fetch_failed
    /\ section[t] = "docker_images"
    /\ result[t] = bundled_docker_images

\* C5: malformed JSON.  When the download left text that is not JSON, the
\* call does not raise, the global becomes the bundled document and the
\* removal of the cache file was attempted once per such download; this
\* holds whether the removal worked (the file is gone) or raised OSError.
C5_MalformedJson ==
  \A t \in Threads :
    (returned(t) /\ requests # <<>>
       /\ requests[Len(requests)].outcome = "not json")
    => /\ raised[t] = ""
       /\ parameters = bundled_parameters
       /\ Len(removals) =
            Cardinality({i \in DOMAIN requests :
                           requests[i].outcome = "not json"})
       /\ removals[Len(removals)] \in {"removed", "OSError"}
       /\ removals[Len(removals)] = "removed" => ~cache.exists

C5_Witness ==
  \E t \in Threads :
    /\ returned(t)
    /\ requests # <<>> /\ requests[Len(requests)].outcome = "not json"
    /\ removals = <<"OSError">>
    /\ cache = NotJson
    /\ parameters = bundled_parameters

\* The values of REPROZIP_PARAMETERS that C6 is about: non-empty, not a
\* URL, not one of "1", "on", "enabled", "yes", "true".
C6_disabling(env) ==
  /\ env.isstr
  /\ env.s # <<>>
  /\ ~startswith(env.s, <<"h", "t", "t", "p", ":", "/", "/">>)
  /\ ~startswith(env.s, <<"h", "t", "t", "p", "s", ":", "/", "/">>)
  /\ env.s \notin {<<"1">>, <<"o", "n">>, <<"e", "n", "a", "b", "l", "e", "d">>,
                   <<"y", "e", "s">>, <<"t", "r", "u", "e">>}

\* C6: the override disables the network.  With such a value
\* download_file is never called, no call raises, and once a call has
\* returned the global is the bundled document.
C6_OverrideDisablesNetwork ==
  C6_disabling(env_var)
  => /\ requests = <<>>
     /\ parameters \in {None, bundled_parameters}
     /\ \A t \in Threads :
          /\ raised[t] = ""
          /\ returned(t) => parameters = bundled_parameters

C6_Witness ==
  /\ env_var = Str(<<"d", "i", "s", "a", "b", "l", "e", "d">>)
  /\ \E t \in Threads : returned(t) /\ op[t] = "get_parameter"
  /\ requests = <<>>
  /\ parameters = bundled_parameters

\* The remote base C7 names: the override when it starts with http:// or
\* https://, the default URL when the variable is unset or one of "", "1",
\* "on", "enabled", "yes", "true".
C7_fetching(env) ==
  \/ ~env.isstr
  \/ env.s \in {<<>>, <<"1">>, <<"o", "n">>, <<"e", "n", "a", "b", "l", "e", "d">>,
                <<"y", "e", "s">>, <<"t", "r", "u", "e">>}
  \/ startswith(env.s, <<"h", "t", "t", "p", ":", "/", "/">>)
  \/ startswith(env.s, <<"h", "t", "t", "p", "s", ":", "/", "/">>)
C7_base(env) ==
  IF env.isstr
       /\ (\/ startswith(env.s, <<"h", "t", "t", "p", ":", "/", "/">>)
           \/ startswith(env.s, <<"h", "t", "t", "p", "s", ":", "/", "/">>))
    THEN env.s
    ELSE default_url

\* C7: the URL of the download.  Every call of download_file asks for the
\* remote base followed by the tool's version, and for such a value of the
\* variable the first call into the module downloads exactly once.
C7_FetchUrl ==
  C7_fetching(env_var)
  => /\ \A i \in DOMAIN requests :
          requests[i].url = C7_base(env_var) \o reprounzip_version
     /\ \A t \in Threads :
          (returned(t) /\ Len(called) = 1) => Len(requests) = 1

C7_Witness ==
  /\ env_var = Str(<<"h", "t", "t", "p", ":", "/", "/", "t", "/">>)
  /\ \E t \in Threads : returned(t) /\ Len(called) = 1
  /\ Len(requests) = 1
  /\ requests[1].url = <<"h", "t", "t", "p", ":", "/", "/", "t", "/",
                         "1", ".", "0", ".", "8">>

\* C8: an absent section is a value.  A get_parameter call that returned
\* gave the payload the loaded dict has for the section, None when it has
\* none; a call that began with a dict loaded did not raise and left the
\* global as it was.
C8_AbsentSectionIsNone ==
  \A t \in Threads :
    op[t] = "get_parameter"
    => /\ (returned(t) /\ raised[t] = "")
          => /\ is_dict(parameters)
             /\ result[t] = IF section[t] \in DOMAIN parameters.sections
                              THEN parameters.sections[section[t]]
                              ELSE None
       /\ is_dict(entry[t])
          => /\ raised[t] = ""
             /\ parameters = entry[t]

C8_Witness ==
  \E t \in Threads :
    /\ returned(t) /\ op[t] = "get_parameter"
    /\ is_dict(entry[t])
    /\ section[t] = "no_such_section"
    /\ raised[t] = ""
    /\ result[t] = None

\* C9: the dataset is immutable.  Once the global is not None, no step
\* changes its value.
C9_DatasetImmutable ==
  [][parameters # None => parameters' = parameters]_vars

\* The least index of a rule of the list whose pattern (field `key`)
\* matches s; 0 when none does.
C10_first(rules, key, s) ==
  LET hits == {i \in DOMAIN rules : re_search(rules[i][key], s)}
  IN IF hits = {} THEN 0
     ELSE CHOOSE i \in hits : \A j \in hits : i <= j

C10_ubuntu == <<"u", "b", "u", "n", "t", "u">>

\* C10: two-level first-match resolution.  The record selected is that of
\* the first version rule that matches the version inside the first entry
\* whose name pattern matches the lower-cased distribution; the entry's own
\* default when no rule of that entry matches; the catalog's default when
\* no entry matches.  On the bundled docker_images: ("Ubuntu", "14.04") is
\* Ubuntu 14.04 'Trusty', ("ubuntu", "99.99") is the Ubuntu entry's
\* default, ("gentoo", "1.0") is the top-level Debian 8 'Jessie'.
C10_FirstMatchResolution ==
  selected # None
  => LET es == catalog_entries(query.catalog)
         i == C10_first(es, "name", lower(query.distribution))
         j == C10_first(es[i].versions, "version", query.version)
     IN /\ selected = IF i = 0 THEN query.catalog.default
                      ELSE IF j = 0 THEN es[i].default
                      ELSE es[i].versions[j]
        /\ (/\ query.catalog = bundled_docker_images
            /\ query.distribution = <<"U", "b", "u", "n", "t", "u">>
            /\ query.version = <<"1", "4", ".", "0", "4">>)
           => /\ selected.name = "Ubuntu 14.04 'Trusty'"
              /\ selected.image = "ubuntu:14.04"
        /\ (/\ query.catalog = bundled_docker_images
            /\ query.distribution = C10_ubuntu
            /\ query.version = <<"9", "9", ".", "9", "9">>)
           => /\ selected = [distribution |-> "ubuntu",
                             image |-> "ubuntu:15.10",
                             name |-> "Ubuntu 15.10 'Wily'"]
              /\ selected # query.catalog.default
        /\ (/\ query.catalog = bundled_docker_images
            /\ query.distribution = <<"g", "e", "n", "t", "o", "o">>
            /\ query.version = <<"1", ".", "0">>)
           => selected = [distribution |-> "debian",
                          image |-> "debian:jessie",
                          name |-> "Debian 8 'Jessie'"]

C10_Witness ==
  /\ query.catalog = bundled_docker_images
  /\ query.distribution = C10_ubuntu
  /\ query.version = <<"9", "9", ".", "9", "9">>
  /\ selected = docker_images_ubuntu_default

\* Every thread is in, or has finished, a call of get_parameter that began
\* while the global was still None.
C11_first_callers ==
  \A t \in Threads : op[t] = "get_parameter" /\ entry[t] = None

\* C11: guarded load-once.  When every thread calls get_parameter while the
\* dataset is still unloaded, download_file is called at most once in
\* total, under every interleaving of the threads' statements.
C11_GuardedLoadOnce ==
  C11_first_callers => Len(requests) <= 1

\* The value of the global is a document that may be served: the bundled
\* one, or a dict whose version is in [1.1, 1.2).
C12_servable(value) ==
  \/ value = bundled_parameters
  \/ is_dict(value) /\ C2_in_window(get_version(value))

\* C12: no caller reads a rejected document.  Under every interleaving,
\* the payload that line 86 returns to a get_parameter call begun while the
\* dataset was unloaded is taken from the bundled document or from a
\* downloaded document whose version is in [1.1, 1.2), never from one the
\* version check rejects or has not yet checked.
C12_NoRejectedRead ==
  [][\A t \in Threads :
       (/\ pc[t] = "L86"
        /\ pc'[t] = "idle"
        /\ entry[t] = None
        /\ raised'[t] = ""
        /\ result'[t] # None)
       => C12_servable(parameters)]_vars

\* The lines of update_parameters.
C13_update_lines == {"L34", "L37", "L48", "L59", "L65", "L70", "L77"}

\* C13: state unchanged on error.  When a statement of update_parameters
\* ends the call by raising, the global is left None (unloaded), so that no
\* later get_parameter serves a document that did not pass the version
\* check.
C13_StateUnchangedOnError ==
  [][\A t \in Threads :
       (pc[t] \in C13_update_lines /\ pc'[t] = "idle" /\ raised'[t] # "")
       => parameters' = None]_vars

\* C14: loaded version invariant.  Whenever a call of update_parameters has
\* returned normally, whichever path it took, the global is a dict whose
\* version is in [1.1, 1.2); and the bundled document, of version "1.1.0",
\* passes the version check of lines 70-71.
C14_LoadedVersion ==
  /\ \A t \in Threads :
       (returned(t) /\ op[t] = "update_parameters" /\ raised[t] = "")
       => /\ is_dict(parameters)
          /\ C2_in_window(get_version(parameters))
  /\ version_check(bundled_parameters, python) = "accept"

\* The catalog sections of the bundled document.
C15_catalog_sections == {"docker_images", "vagrant_boxes", "vagrant_boxes_x"}

\* A container-image record or a virtual-machine-box record.
C15_is_record(r) ==
  /\ {"distribution", "name"} \subseteq DOMAIN r
  /\ "image" \in DOMAIN r \/ "architectures" \in DOMAIN r

\* The catalog has a top-level default record and every entry has its own.
C15_has_defaults(catalog) ==
  /\ "default" \in DOMAIN catalog
  /\ C15_is_record(catalog.default)
  /\ \A i \in DOMAIN catalog_entries(catalog) :
       /\ "default" \in DOMAIN catalog_entries(catalog)[i]
       /\ C15_is_record(catalog_entries(catalog)[i].default)

\* C15: resolution always finds a record in the bundled dataset.  Each of
\* docker_images, vagrant_boxes and vagrant_boxes_x of the bundled document
\* has a top-level default record, each entry of each has its own default
\* record, and resolveImageOrBox on a bundled catalog selects a record for
\* every distribution name and version.
C15_BundledAlwaysResolves ==
  /\ \A s \in C15_catalog_sections :
       /\ s \in DOMAIN bundled_parameters.sections
       /\ C15_has_defaults(bundled_parameters.sections[s])
  /\ (/\ selected # None
      /\ \E s \in C15_catalog_sections :
           query.catalog = dict_get(parameters, s))
     => C15_is_record(selected)

C15_Witness ==
  /\ query.catalog = bundled_vagrant_boxes
  /\ query.distribution = <<"f", "e", "d", "o", "r", "a">>
  /\ query.version = <<"5">>
  /\ selected = vagrant_boxes_fedora_default
  /\ selected # query.catalog.default

\* The last call of download_file left text that json.load rejects.
C16_parse_failed ==
  requests # <<>> /\ requests[Len(requests)].outcome = "not json"

\* The step is a call of download_file that returned: the collaborator
\* wrote the cache file.
C16_downloaded ==
  /\ Len(requests') = Len(requests) + 1
  /\ requests'[Len(requests')].outcome # "raised"

\* C16: cache removal only on parse failure.  update_parameters attempts
\* filename.remove() only at line 65, after the text download_file left
\* failed to parse; in every other step (the download raised, the version
\* was rejected or accepted, the network was skipped) the cache file is
\* left as it was, and it changes otherwise only when download_file
\* writes it.
C16_CacheRemovalOnlyOnParseFailure ==
  [][/\ removals' # removals
        => /\ C16_parse_failed
           /\ \E t \in Threads : pc[t] = "L65" /\ pc'[t] = "L77"
     /\ cache' # cache => (C16_downloaded \/ removals' # removals)]_vars

\* The download raised, the call returned with the bundled document, and
\* the text an earlier run had left in the cache file, though not JSON, is
\* still there.
C16_Witness ==
  \E t \in Threads :
    /\ returned(t)
    /\ Len(requests) = 1 /\ requests[1].outcome = "raised"
    /\ parameters = bundled_parameters
    /\ removals = <<>>
    /\ cache = NotJson

=============================================================================
